---- MODULE Spec2Model ----
(***************************************************************************)
(* Project-tracker MCP tools (tools.py, storage.py, types_.py).            *)
(*                                                                         *)
(* The durable state is docs/progress.json; the catalog is                 *)
(* docs/functions.json.  Every tool call reads both from disk, works on an *)
(* in-memory ProgressData and (update_task_status only) writes it back.    *)
(***************************************************************************)
EXTENDS Integers, Sequences, FiniteSets, TLC

VARIABLES disk, catalog, clock, prev, last, writer, walk, listing

vars == <<disk, catalog, clock, prev, last, writer, walk, listing>>

----------------------------------------------------------------------------
(* Bounds of the model *)

\* number of update_task_status calls in one behaviour (datetime.now ticks)
MaxClock == 2

----------------------------------------------------------------------------
(* types_.py *)

NoneVal == "None"

TaskStatusEnum == {"pending", "in_progress", "completed", "blocked"}

\* status strings a caller may pass; "done" is not a member of the enum
StatusArgs == TaskStatusEnum \cup {"done"}

\* the catalogs use the ids "A", "B", "C"; "X" never has a catalog entry
UnknownId == "X"
IdArgs == {"A", "B", UnknownId}

NotesArgs == {NoneVal, "n"}

FunctionDef(id, deps) == [id |-> id, dependencies |-> deps]

TaskStatus(id, status, notes, updated_at) ==
    [id |-> id, status |-> status, notes |-> notes, updated_at |-> updated_at]

ProjectProgress(name, total, completed, in_progress, pending, blocked, current_task) ==
    [project_name |-> name, total |-> total, completed |-> completed,
     in_progress |-> in_progress, pending |-> pending, blocked |-> blocked,
     current_task |-> current_task]

ChangeLogEntry(function_id, old_status, new_status, timestamp) ==
    [function_id |-> function_id, action |-> "status_change",
     description |-> <<old_status, new_status>>, timestamp |-> timestamp]

ProgressData(project_name, summary, tasks, changelog) ==
    [project_name |-> project_name, summary |-> summary,
     tasks |-> tasks, changelog |-> changelog]

----------------------------------------------------------------------------
(* The ordered mapping id -> TaskStatus (a Python dict) is a sequence of   *)
(* TaskStatus records without repeated ids, in insertion order.            *)

RECURSIVE task_index(_, _, _)
task_index(tasks, id, i) ==
    IF i > Len(tasks) THEN 0
    ELSE IF tasks[i].id = id THEN i
    ELSE task_index(tasks, id, i + 1)

has_task(tasks, id) == task_index(tasks, id, 1) # 0

NoTask == TaskStatus(NoneVal, NoneVal, NoneVal, 0)

\* progress.tasks.get(id)
tasks_get(tasks, id) ==
    IF has_task(tasks, id) THEN tasks[task_index(tasks, id, 1)] ELSE NoTask

\* an assignment that moves the key to the front
tasks_set_to_front(tasks, id, task) ==
    <<task>> \o SelectSeq(tasks, LAMBDA t : t.id # id)

\* progress.tasks[id] = task : replaces in place, or appends a new key
tasks_set(tasks, id, task) ==
    IF has_task(tasks, id)
    THEN [tasks EXCEPT ![task_index(tasks, id, 1)] = task]
    ELSE Append(tasks, task)

----------------------------------------------------------------------------
(* storage.py : the catalog *)

NoFunc == FunctionDef(NoneVal, <<>>)

\* bug: an id without an entry falls back to the first entry of the catalog
get_function_by_id_fallback(functions, func_id) ==
    IF functions = <<>> THEN NoFunc
    ELSE IF \E i \in 1..Len(functions) : functions[i].id = func_id
    THEN functions[CHOOSE i \in 1..Len(functions) :
                      /\ functions[i].id = func_id
                      /\ \A j \in 1..(i - 1) : functions[j].id # func_id]
    ELSE functions[1]

\* get_function_by_id: the first entry of the list with that id
RECURSIVE get_function_by_id(_, _)
get_function_by_id(functions, func_id) ==
    IF functions = <<>> THEN NoFunc
    ELSE IF Head(functions).id = func_id THEN Head(functions)
    ELSE get_function_by_id(Tail(functions), func_id)

\* func_map = {func.id: func for func in functions}; func_map.get(id):
\* the last entry of the list with that id
RECURSIVE func_map_get(_, _)
func_map_get(functions, func_id) ==
    IF functions = <<>> THEN NoFunc
    ELSE IF functions[Len(functions)].id = func_id THEN functions[Len(functions)]
    ELSE func_map_get(SubSeq(functions, 1, Len(functions) - 1), func_id)

----------------------------------------------------------------------------
(* storage.py : progress.json *)

EmptySummary == ProjectProgress("", 0, 0, 0, 0, 0, NoneVal)
EmptyFile == [project_name |-> "", summary |-> EmptySummary,
              tasks |-> <<>>, changelog |-> <<>>]

\* progress.json does not exist
Absent == [kind |-> "absent", data |-> EmptyFile]
\* progress.json was truncated by open(.., "w") and json.dump did not finish
Corrupt == [kind |-> "corrupt", data |-> EmptyFile]
File(data) == [kind |-> "file", data |-> data]

RECURSIVE seed_tasks(_, _, _)
seed_tasks(functions, tasks, now) ==
    IF functions = <<>> THEN tasks
    ELSE seed_tasks(Tail(functions),
                    tasks_set(tasks, Head(functions).id,
                              TaskStatus(Head(functions).id, "pending", "", now)),
                    now)

\* an initialisation that seeds nothing
init_progress_empty(cat, now) ==
    ProgressData("", ProjectProgress("Unknown", 0, 0, 0, 0, 0, NoneVal), <<>>, <<>>)

init_progress_from_functions(cat, now) ==
    IF ~cat.available
    THEN ProgressData("", ProjectProgress("Unknown", 0, 0, 0, 0, 0, NoneVal), <<>>, <<>>)
    ELSE LET total == Len(cat.functions)
         IN  ProgressData("",
                          ProjectProgress("proj", total, 0, 0, total, 0, NoneVal),
                          seed_tasks(cat.functions, <<>>, now),
                          <<>>)

\* read_progress: [ok, progress]; a file that exists but does not parse
\* raises StorageError
read_progress(d, cat, now) ==
    IF d.kind = "absent"
    THEN [ok |-> TRUE, progress |-> init_progress_from_functions(cat, now)]
    ELSE IF d.kind = "corrupt"
    THEN [ok |-> FALSE, progress |-> EmptyFile]
    ELSE [ok |-> TRUE,
          progress |-> ProgressData(
              d.data.project_name,
              IF d.data.summary.project_name = "" /\ d.data.project_name # ""
              THEN [d.data.summary EXCEPT !.project_name = d.data.project_name]
              ELSE d.data.summary,
              d.data.tasks,
              d.data.changelog)]

\* a load that stores the state it seeded
read_effect_persist_seed(d, cat, now) ==
    IF d.kind = "absent"
    THEN File([project_name |-> "",
               summary |-> init_progress_from_functions(cat, now).summary,
               tasks |-> init_progress_from_functions(cat, now).tasks,
               changelog |-> <<>>])
    ELSE d

\* progress.json after read_progress: the function returns what it parsed or
\* seeded and calls neither write_progress nor _write_json_file
read_effect(d, cat, now) == d

\* write_progress: the dictionary that is dumped has the keys summary, tasks
\* and changelog; the root project_name is not written
write_progress(progress) ==
    [project_name |-> "", summary |-> progress.summary,
     tasks |-> progress.tasks, changelog |-> progress.changelog]

\* outcomes of _write_json_file: "ok"; "open_fail" (mkdir or open raises, the
\* file is untouched); "dump_fail" (the file was opened for writing, hence
\* truncated, and json.dump raises)
WriteOutcomes == {"ok", "open_fail", "dump_fail"}

write_json_file(d, data, wr) ==
    IF wr = "ok" THEN File(data)
    ELSE IF wr = "open_fail" THEN d
    ELSE Corrupt

----------------------------------------------------------------------------
(* tools.py : _recalculate_summary *)

\* the counting loop over progress.tasks.values()
RECURSIVE count_status(_, _)
count_status(tasks, status) ==
    IF tasks = <<>> THEN 0
    ELSE (IF Head(tasks).status = status THEN 1 ELSE 0)
         + count_status(Tail(tasks), status)

\* bug: the blocked count is not recomputed
recalculate_summary_stale_blocked(progress) ==
    [progress EXCEPT
        !.summary.total = Len(progress.tasks),
        !.summary.completed = count_status(progress.tasks, "completed"),
        !.summary.in_progress = count_status(progress.tasks, "in_progress"),
        !.summary.pending = count_status(progress.tasks, "pending")]

recalculate_summary(progress) ==
    [progress EXCEPT
        !.summary.total = Len(progress.tasks),
        !.summary.completed = count_status(progress.tasks, "completed"),
        !.summary.in_progress = count_status(progress.tasks, "in_progress"),
        !.summary.pending = count_status(progress.tasks, "pending"),
        !.summary.blocked = count_status(progress.tasks, "blocked")]

----------------------------------------------------------------------------
(* tools.py : update_task_status *)

NoSelection == [selected |-> NoneVal, dependencies |-> {}]

\* the response of a tool call; "write" tells whether _write_json_file was
\* reached and how it ended ("none": the handler returned before writing)
Result(success, error, created, summary, sel) ==
    [success |-> success, error |-> error, created |-> created,
     summary |-> summary, selected |-> sel.selected,
     dependencies |-> sel.dependencies, write |-> "none"]

format_error(error) == Result(FALSE, error, FALSE, EmptySummary, NoSelection)

\* bug: the creation path logs a change as well
create_task_logged(progress, function_id, new_status, notes, now) ==
    [progress EXCEPT
        !.tasks = tasks_set(progress.tasks, function_id,
                            TaskStatus(function_id, new_status, notes, now)),
        !.changelog = Append(progress.changelog,
                             ChangeLogEntry(function_id, "pending", new_status, now))]

\* tools.py 279-285: the task has no TaskStatus yet, create it
create_task(progress, function_id, new_status, notes, now) ==
    [progress EXCEPT
        !.tasks = tasks_set(progress.tasks, function_id,
                            TaskStatus(function_id, new_status, notes, now))]

\* bug: a transition to the same status is not logged
append_changelog_if_changed(changelog, function_id, old_status, new_status, now) ==
    IF old_status = new_status THEN changelog
    ELSE Append(changelog, ChangeLogEntry(function_id, old_status, new_status, now))

\* tools.py 293-299: the change log entry of an existing task
append_changelog(changelog, function_id, old_status, new_status, now) ==
    Append(changelog, ChangeLogEntry(function_id, old_status, new_status, now))

\* tools.py 287-299: the task exists, update it and log the change
update_existing_task(progress, function_id, new_status, notes, now) ==
    LET old_status == tasks_get(progress.tasks, function_id).status
    IN  [progress EXCEPT
            !.tasks = tasks_set(progress.tasks, function_id,
                                TaskStatus(function_id, new_status, notes, now)),
            !.changelog = append_changelog(progress.changelog, function_id,
                                           old_status, new_status, now)]

\* a pointer that is set and never cleared
update_current_task_never_clears(progress, function_id, new_status) ==
    IF new_status = "in_progress"
    THEN [progress EXCEPT !.summary.current_task = function_id]
    ELSE progress

\* bug: the pointer is cleared whenever the new status is not in_progress
update_current_task_always_clears(progress, function_id, new_status) ==
    IF new_status = "in_progress"
    THEN [progress EXCEPT !.summary.current_task = function_id]
    ELSE [progress EXCEPT !.summary.current_task = NoneVal]

\* tools.py 304-308: the current-task pointer
update_current_task(progress, function_id, new_status) ==
    IF new_status = "in_progress"
    THEN [progress EXCEPT !.summary.current_task = function_id]
    ELSE IF progress.summary.current_task = function_id
    THEN [progress EXCEPT !.summary.current_task = NoneVal]
    ELSE progress

\* bug: the status string is not validated
valid_status_any(status) == TRUE

\* TaskStatusEnum(status) raises ValueError for a string outside the enum
valid_status(status) == status \in TaskStatusEnum

\* the whole handler: [disk, result]
update_task_status(d, cat, function_id, status, notes, now, wr) ==
    IF ~valid_status(status)
    THEN [disk |-> d, result |-> format_error("InvalidStatus")]
    ELSE
    LET rp == read_progress(d, cat, now) IN
    IF ~rp.ok
    THEN [disk |-> d, result |-> format_error("StorageError")]
    ELSE
    LET progress == rp.progress
        exists == has_task(progress.tasks, function_id)
    IN
    IF ~exists /\ ~cat.available
    THEN [disk |-> d, result |-> format_error("StorageError")]
    ELSE IF ~exists /\ get_function_by_id(cat.functions, function_id) = NoFunc
    THEN [disk |-> d, result |-> format_error("UnknownTask")]
    ELSE
    LET p1 == IF exists
              THEN update_existing_task(progress, function_id, status, notes, now)
              ELSE create_task(progress, function_id, status, notes, now)
        p2 == recalculate_summary(p1)
        p3 == update_current_task(p2, function_id, status)
        d2 == write_json_file(d, write_progress(p3), wr)
    IN
    IF wr = "ok"
    THEN [disk |-> d2,
          result |-> [Result(TRUE, NoneVal, ~exists, p3.summary, NoSelection)
                         EXCEPT !.write = wr]]
    ELSE [disk |-> d2,
          result |-> [format_error("StorageError") EXCEPT !.write = wr]]

----------------------------------------------------------------------------
(* tools.py : get_current_task_context *)

\* bug: a dependency without a TaskStatus is skipped instead of blocking
RECURSIVE deps_completed_skip_missing(_, _)
deps_completed_skip_missing(tasks, deps) ==
    IF deps = <<>> THEN TRUE
    ELSE LET dep_task == tasks_get(tasks, Head(deps))
         IN  IF dep_task # NoTask /\ dep_task.status # "completed"
             THEN FALSE
             ELSE deps_completed_skip_missing(tasks, Tail(deps))

\* tools.py 421-434; the loop over func.dependencies returns False at the
\* first dependency without a completed TaskStatus
RECURSIVE deps_completed(_, _)
deps_completed(tasks, deps) ==
    IF deps = <<>> THEN TRUE
    ELSE LET dep_task == tasks_get(tasks, Head(deps))
         IN  IF dep_task = NoTask \/ dep_task.status # "completed"
             THEN FALSE
             ELSE deps_completed(tasks, Tail(deps))

\* a readiness that ignores completed dependencies
is_task_ready_only_without_deps(functions, tasks, func_id) ==
    /\ func_map_get(functions, func_id) # NoFunc
    /\ func_map_get(functions, func_id).dependencies = <<>>

\* bug: every task with a catalog entry is ready
is_task_ready_no_deps_check(functions, tasks, func_id) ==
    func_map_get(functions, func_id) # NoFunc

is_task_ready(functions, tasks, func_id) ==
    LET func == func_map_get(functions, func_id)
    IN  IF func = NoFunc THEN FALSE
        ELSE IF func.dependencies = <<>> THEN TRUE
        ELSE deps_completed(tasks, func.dependencies)

\* tools.py 436-443: the scan over progress.tasks.items(); it stops at the
\* first in_progress task and remembers the first ready pending task
RECURSIVE scan_tasks(_, _, _, _)
scan_tasks(functions, tasks, i, ready_pending_task) ==
    IF i > Len(tasks)
    THEN [in_progress_task |-> NoneVal, ready_pending_task |-> ready_pending_task]
    ELSE IF tasks[i].status = "in_progress"
    THEN [in_progress_task |-> tasks[i].id, ready_pending_task |-> ready_pending_task]
    ELSE IF tasks[i].status = "pending" /\ ready_pending_task = NoneVal
    THEN IF is_task_ready(functions, tasks, tasks[i].id)
         THEN scan_tasks(functions, tasks, i + 1, tasks[i].id)
         ELSE scan_tasks(functions, tasks, i + 1, NoneVal)
    ELSE scan_tasks(functions, tasks, i + 1, ready_pending_task)

\* bug: current_task = ready_pending_task or in_progress_task
select_current_task_pending_first(functions, tasks) ==
    LET found == scan_tasks(functions, tasks, 1, NoneVal)
    IN  IF found.ready_pending_task # NoneVal THEN found.ready_pending_task
        ELSE found.in_progress_task

\* tools.py 445: current_task = in_progress_task or ready_pending_task
select_current_task(functions, tasks) ==
    LET found == scan_tasks(functions, tasks, 1, NoneVal)
    IN  IF found.in_progress_task # NoneVal THEN found.in_progress_task
        ELSE found.ready_pending_task

\* a traversal that stops at the declared dependencies
collect_deps_direct(functions, to_process, all_dep_ids) ==
    all_dep_ids \cup {to_process[i] : i \in 1..Len(to_process)}

\* tools.py 469-480: to_process is a queue, all_dep_ids the visited set
RECURSIVE collect_deps(_, _, _)
collect_deps(functions, to_process, all_dep_ids) ==
    IF to_process = <<>> THEN all_dep_ids
    ELSE LET dep_id == Head(to_process)
         IN  IF dep_id \in all_dep_ids
             THEN collect_deps(functions, Tail(to_process), all_dep_ids)
             ELSE LET seen == all_dep_ids \cup {dep_id}
                      dep_func == func_map_get(functions, dep_id)
                      nested == IF dep_func = NoFunc THEN <<>>
                                ELSE SelectSeq(dep_func.dependencies,
                                               LAMBDA n : n \notin seen)
                  IN  collect_deps(functions, Tail(to_process) \o nested, seen)

\* tools.py 504: the ids of all_dep_ids that have a catalog entry
dep_funcs(functions, all_dep_ids) ==
    {dep_id \in all_dep_ids : func_map_get(functions, dep_id) # NoFunc}

\* the whole handler; it writes nothing
get_current_task_context(d, cat, now) ==
    LET rp == read_progress(d, cat, now) IN
    IF ~rp.ok \/ ~cat.available
    THEN format_error("StorageError")
    ELSE
    LET progress == rp.progress
        current_task == select_current_task(cat.functions, progress.tasks)
    IN
    IF current_task = NoneVal
    THEN Result(TRUE, NoneVal, FALSE, progress.summary, NoSelection)
    ELSE
    LET func_def == func_map_get(cat.functions, current_task) IN
    IF func_def = NoFunc
    THEN Result(FALSE, "NoFunctionDef", FALSE, EmptySummary,
                [selected |-> current_task, dependencies |-> {}])
    ELSE Result(TRUE, NoneVal, FALSE, progress.summary,
                [selected |-> current_task,
                 dependencies |->
                     dep_funcs(cat.functions,
                               collect_deps(cat.functions, func_def.dependencies, {}))])

\* tools.py 43-74
get_project_status(d, cat, now) ==
    LET rp == read_progress(d, cat, now) IN
    IF ~rp.ok THEN format_error("StorageError")
    ELSE Result(TRUE, NoneVal, FALSE, rp.progress.summary, NoSelection)

\* tools.py 100-105: the scan of get_current_task; it stops at the first
\* in_progress task and remembers the first pending task, ready or not
\* a scan that looks at pending tasks only
scan_pending_only(tasks, i, first_pending_task) ==
    LET pending == {k \in 1..Len(tasks) : tasks[k].status = "pending"}
    IN  [in_progress_task |-> NoneVal,
         first_pending_task |->
             IF pending = {} THEN NoneVal
             ELSE tasks[CHOOSE k \in pending : \A j \in pending : k <= j].id]

RECURSIVE scan_first_pending(_, _, _)
scan_first_pending(tasks, i, first_pending_task) ==
    IF i > Len(tasks)
    THEN [in_progress_task |-> NoneVal, first_pending_task |-> first_pending_task]
    ELSE IF tasks[i].status = "in_progress"
    THEN [in_progress_task |-> tasks[i].id, first_pending_task |-> first_pending_task]
    ELSE IF tasks[i].status = "pending" /\ first_pending_task = NoneVal
    THEN scan_first_pending(tasks, i + 1, tasks[i].id)
    ELSE scan_first_pending(tasks, i + 1, first_pending_task)

\* tools.py 77-138
get_current_task(d, cat, now) ==
    LET rp == read_progress(d, cat, now) IN
    IF ~rp.ok \/ ~cat.available
    THEN format_error("StorageError")
    ELSE
    LET found == scan_first_pending(rp.progress.tasks, 1, NoneVal)
        current_task == IF found.in_progress_task # NoneVal
                        THEN found.in_progress_task
                        ELSE found.first_pending_task
    IN
    IF current_task = NoneVal
    THEN Result(TRUE, NoneVal, FALSE, EmptySummary, NoSelection)
    ELSE IF func_map_get(cat.functions, current_task) = NoFunc
    THEN Result(FALSE, "NoFunctionDef", FALSE, EmptySummary,
                [selected |-> current_task, dependencies |-> {}])
    ELSE Result(TRUE, NoneVal, FALSE, EmptySummary,
                [selected |-> current_task, dependencies |-> {}])

\* tools.py 141-177
get_function_def(d, cat, now, function_id) ==
    IF ~cat.available THEN format_error("StorageError")
    ELSE IF get_function_by_id(cat.functions, function_id) = NoFunc
    THEN format_error("UnknownTask")
    ELSE IF ~read_progress(d, cat, now).ok THEN format_error("StorageError")
    ELSE Result(TRUE, NoneVal, FALSE, EmptySummary,
                [selected |-> function_id, dependencies |-> {}])

\* tools.py 358-380; readable tells whether docs/architecture.json parses
get_architecture_overview(readable) ==
    IF ~readable THEN format_error("StorageError")
    ELSE Result(TRUE, NoneVal, FALSE, EmptySummary, NoSelection)

\* tools.py 199-211: the same traversal with get_function_by_id lookups
RECURSIVE collect_deps_by_id(_, _, _)
collect_deps_by_id(functions, to_process, all_dep_ids) ==
    IF to_process = <<>> THEN all_dep_ids
    ELSE LET dep_id == Head(to_process)
         IN  IF dep_id \in all_dep_ids
             THEN collect_deps_by_id(functions, Tail(to_process), all_dep_ids)
             ELSE LET seen == all_dep_ids \cup {dep_id}
                      dep_func == get_function_by_id(functions, dep_id)
                      nested == IF dep_func = NoFunc THEN <<>>
                                ELSE SelectSeq(dep_func.dependencies,
                                               LAMBDA n : n \notin seen)
                  IN  collect_deps_by_id(functions, Tail(to_process) \o nested, seen)

\* tools.py 180-239; get_functions_by_ids keeps the ids that have an entry
get_function_with_deps(d, cat, now, function_id) ==
    IF ~cat.available THEN format_error("StorageError")
    ELSE
    LET main_func == get_function_by_id(cat.functions, function_id) IN
    IF main_func = NoFunc THEN format_error("UnknownTask")
    ELSE IF ~read_progress(d, cat, now).ok THEN format_error("StorageError")
    ELSE Result(TRUE, NoneVal, FALSE, EmptySummary,
                [selected |-> function_id,
                 dependencies |->
                     dep_funcs(cat.functions,
                               collect_deps_by_id(cat.functions,
                                                  main_func.dependencies, {}))])

----------------------------------------------------------------------------
(* The catalogs and the progress files a behaviour may start from *)

Catalogs ==
    { <<FunctionDef("A", <<>>), FunctionDef("B", <<"A">>)>>,
      <<FunctionDef("A", <<"B">>), FunctionDef("B", <<"C">>), FunctionDef("C", <<>>)>>,
      <<FunctionDef("A", <<"B">>), FunctionDef("B", <<"A">>)>>,
      <<FunctionDef("A", <<UnknownId>>), FunctionDef("B", <<>>)>>,
      <<FunctionDef("B", <<>>), FunctionDef("A", <<"A", "B", "B">>)>> }

\* functions.json is readable, or it is missing or malformed
InitCatalogs ==
    { [available |-> TRUE, functions |-> c] : c \in Catalogs }
    \cup { [available |-> FALSE, functions |-> <<>>] }

\* a summary that has drifted from the tasks (hand-edited progress.json);
\* its pointer names "B"
DriftedSummary == ProjectProgress("proj", 5, 3, 0, 1, 0, "B")

InitLog == <<ChangeLogEntry("A", "pending", "completed", 0)>>

\* the summary _recalculate_summary would store for these tasks
StoredSummary(tasks, current_task) ==
    [recalculate_summary(ProgressData("", EmptySummary, tasks, <<>>)).summary
        EXCEPT !.project_name = "proj", !.current_task = current_task]

StoredFile(summary, tasks, changelog) ==
    File([project_name |-> "proj", summary |-> summary, tasks |-> tasks,
          changelog |-> changelog])

\* progress.json is missing, or holds one of these states: no task yet; a
\* file written for a smaller catalog; catalog order reversed with a drifted
\* summary; work under way with a change log; a task whose id has no catalog
\* entry
InitDisks ==
    { Absent,
      StoredFile(StoredSummary(<<>>, NoneVal), <<>>, <<>>),
      StoredFile(StoredSummary(<<TaskStatus("A", "pending", "", 0)>>, NoneVal),
                 <<TaskStatus("A", "pending", "", 0)>>, <<>>),
      StoredFile(DriftedSummary, <<TaskStatus("A", "pending", "", 0)>>, InitLog),
      StoredFile(DriftedSummary,
                 <<TaskStatus("B", "pending", "", 0),
                   TaskStatus("A", "pending", "", 0)>>, <<>>),
      StoredFile(StoredSummary(<<TaskStatus("A", "completed", "n", 0),
                                 TaskStatus("B", "blocked", "", 0)>>, NoneVal),
                 <<TaskStatus("A", "completed", "n", 0),
                   TaskStatus("B", "blocked", "", 0)>>, InitLog),
      StoredFile(StoredSummary(<<TaskStatus(UnknownId, "in_progress", "", 0),
                                 TaskStatus("A", "pending", "", 0)>>, UnknownId),
                 <<TaskStatus(UnknownId, "in_progress", "", 0),
                   TaskStatus("A", "pending", "", 0)>>, <<>>) }

----------------------------------------------------------------------------
(* State machine: one action per tool call *)

Call(op, function_id, status, notes, result) ==
    [op |-> op, function_id |-> function_id, status |-> status,
     notes |-> notes, result |-> result]

\* the order of a returned dependency list is not observed
NoCall == [op |-> NoneVal, function_id |-> NoneVal, order |-> <<>>]

NoListing == [seed |-> 0, cur |-> NoCall, old |-> NoCall]

\* no closure traversal is observed step by step
NoWalk ==
    [pc |-> "idle", by |-> NoneVal, start |-> NoneVal, to_process |-> <<>>, all_dep_ids |-> {},
     expanded |-> {}, repeated |-> FALSE]

\* no save of progress.json is under way
Idle ==
    [pc |-> "idle", pre |-> Absent, post |-> Absent,
     call |-> Call("none", NoneVal, NoneVal, NoneVal, format_error(NoneVal))]

Init ==
    /\ disk \in InitDisks
    /\ catalog \in InitCatalogs
    /\ clock = 0
    /\ prev = disk
    /\ last = Call("none", NoneVal, NoneVal, NoneVal, format_error(NoneVal))
    /\ writer = Idle
    /\ listing = NoListing
    /\ walk = NoWalk

UpdateTaskStatus ==
    /\ clock < MaxClock
    /\ \E function_id \in IdArgs, status \in StatusArgs,
          notes \in NotesArgs, wr \in WriteOutcomes :
          LET r == update_task_status(disk, catalog, function_id, status,
                                      notes, clock + 1, wr)
          IN  /\ disk' = r.disk
              /\ last' = Call("update_task_status", function_id, status, notes,
                              r.result)
    /\ clock' = clock + 1
    /\ prev' = disk
    /\ UNCHANGED <<catalog, writer, walk, listing>>

GetCurrentTaskContext ==
    /\ last' = Call("get_current_task_context", NoneVal, NoneVal, NoneVal,
                    get_current_task_context(disk, catalog, clock))
    /\ prev' = disk
    /\ disk' = read_effect(disk, catalog, clock)
    /\ UNCHANGED <<catalog, clock, writer, walk, listing>>

GetProjectStatus ==
    /\ last' = Call("get_project_status", NoneVal, NoneVal, NoneVal,
                    get_project_status(disk, catalog, clock))
    /\ prev' = disk
    /\ disk' = read_effect(disk, catalog, clock)
    /\ UNCHANGED <<catalog, clock, writer, walk, listing>>

GetCurrentTask ==
    /\ last' = Call("get_current_task", NoneVal, NoneVal, NoneVal,
                    get_current_task(disk, catalog, clock))
    /\ prev' = disk
    /\ disk' = read_effect(disk, catalog, clock)
    /\ UNCHANGED <<catalog, clock, writer, walk, listing>>

Next ==
    \/ UpdateTaskStatus
    \/ GetCurrentTaskContext
    \/ GetProjectStatus
    \/ GetCurrentTask

Spec == Init /\ [][Next]_vars

\* the behaviours of a project that starts without progress.json, so that
\* its state is seeded from the catalog (storage.py 140-141)
InitSeeded == Init /\ disk = Absent

SpecSeeded == InitSeeded /\ [][Next]_vars

----------------------------------------------------------------------------
(* The save of update_task_status in two steps, as _write_json_file does   *)
(* it: open(file_path, "w") truncates progress.json, json.dump then writes *)
(* the new content.  Between the two steps a tool call of another server   *)
(* process on the same project reads the file as it is.                    *)

\* storage.py 85: the handler has computed the new state and opens the file
BeginWrite ==
    /\ writer.pc = "idle"
    /\ clock < MaxClock
    /\ \E function_id \in IdArgs, status \in StatusArgs, notes \in NotesArgs :
          LET r == update_task_status(disk, catalog, function_id, status,
                                      notes, clock + 1, "ok")
          IN  /\ r.result.write = "ok"
              /\ writer' = [pc |-> "writing", pre |-> disk, post |-> r.disk,
                            call |-> Call("update_task_status", function_id,
                                          status, notes, r.result)]
    /\ disk' = Corrupt
    /\ clock' = clock + 1
    /\ UNCHANGED <<catalog, prev, last, walk, listing>>

\* storage.py 86-87: json.dump completes and the file is closed
FinishWrite ==
    /\ writer.pc = "writing"
    /\ disk' = writer.post
    /\ prev' = writer.pre
    /\ last' = writer.call
    /\ writer' = Idle
    /\ UNCHANGED <<catalog, clock, walk, listing>>

NextConcurrent ==
    \/ BeginWrite
    \/ FinishWrite
    \/ GetCurrentTaskContext
    \/ GetProjectStatus

SpecConcurrent == Init /\ [][NextConcurrent]_vars

----------------------------------------------------------------------------
(* The lookups of the dependency closure.  The closure depends on the      *)
(* catalog and the start id only, so these behaviours start from a wider   *)
(* set of catalogs and from files in which a task is in progress.          *)

LookupCatalogs ==
    InitCatalogs \cup
    { [available |-> TRUE, functions |-> c] : c \in
        { <<FunctionDef("A", <<"B", "C">>), FunctionDef("B", <<"C">>),
            FunctionDef("C", <<>>)>>,
          <<FunctionDef("A", <<"B">>), FunctionDef("B", <<"C">>),
            FunctionDef("C", <<"A">>)>>,
          <<FunctionDef("A", <<UnknownId, "B">>), FunctionDef("B", <<UnknownId>>)>>,
          <<FunctionDef("A", <<"A">>), FunctionDef("B", <<"A">>)>> } }

LookupDisks ==
    InitDisks \cup
    { StoredFile(StoredSummary(<<TaskStatus("A", "in_progress", "", 0),
                                 TaskStatus("B", "pending", "", 0)>>, "A"),
                 <<TaskStatus("A", "in_progress", "", 0),
                   TaskStatus("B", "pending", "", 0)>>, <<>>),
      StoredFile(StoredSummary(<<TaskStatus("A", "completed", "", 0),
                                 TaskStatus("B", "in_progress", "", 0)>>, "B"),
                 <<TaskStatus("A", "completed", "", 0),
                   TaskStatus("B", "in_progress", "", 0)>>, <<>>) }

LookupIds == {"A", "B", "C", UnknownId}

InitLookup ==
    /\ disk \in LookupDisks
    /\ catalog \in LookupCatalogs
    /\ clock = 0
    /\ prev = disk
    /\ last = Call("none", NoneVal, NoneVal, NoneVal, format_error(NoneVal))
    /\ writer = Idle
    /\ listing = NoListing
    /\ walk = NoWalk

GetFunctionWithDeps ==
    /\ \E function_id \in LookupIds :
          last' = Call("get_function_with_deps", function_id, NoneVal, NoneVal,
                       get_function_with_deps(disk, catalog, clock, function_id))
    /\ prev' = disk
    /\ disk' = read_effect(disk, catalog, clock)
    /\ UNCHANGED <<catalog, clock, writer, walk, listing>>

GetFunctionDef ==
    /\ \E function_id \in LookupIds :
          last' = Call("get_function_def", function_id, NoneVal, NoneVal,
                       get_function_def(disk, catalog, clock, function_id))
    /\ prev' = disk
    /\ disk' = read_effect(disk, catalog, clock)
    /\ UNCHANGED <<catalog, clock, writer, walk, listing>>

GetArchitectureOverview ==
    /\ \E readable \in BOOLEAN :
          last' = Call("get_architecture_overview", NoneVal, NoneVal, NoneVal,
                       get_architecture_overview(readable))
    /\ prev' = disk
    /\ UNCHANGED <<disk, catalog, clock, writer, walk, listing>>

NextLookup ==
    \/ GetCurrentTaskContext
    \/ GetFunctionWithDeps
    \/ GetProjectStatus
    \/ GetCurrentTask
    \/ GetFunctionDef
    \/ GetArchitectureOverview

SpecLookup == InitLookup /\ [][NextLookup]_vars

----------------------------------------------------------------------------
(* The order of the dependency list.  all_dep_ids is a Python set of str;  *)
(* the handlers build the list they return by iterating it (tools.py 214   *)
(* and 504).  The iteration order depends on the string hashes, which the  *)
(* interpreter randomises per process; listing.seed stands for the hash    *)
(* seed of the running server process, and two seeds for two of the        *)
(* orders that the same set can be iterated in.                            *)

HashSeeds == {0, 1}

IdRank == [id \in {"A", "B", "C", "D", UnknownId} |->
              CASE id = "A" -> 1 [] id = "B" -> 2 [] id = "C" -> 3
                [] id = "D" -> 4 [] OTHER -> 5]

\* the slot order of the ids under a hash seed
Before(seed, a, b) ==
    IF seed = 0 THEN IdRank[a] < IdRank[b] ELSE IdRank[a] > IdRank[b]

\* list(all_dep_ids), [... for dep_id in all_dep_ids]
RECURSIVE set_iteration_order(_, _)
set_iteration_order(seed, ids) ==
    IF ids = {} THEN <<>>
    ELSE LET first == CHOOSE a \in ids : \A b \in ids \ {a} : Before(seed, a, b)
         IN  <<first>> \o set_iteration_order(seed, ids \ {first})

Listed(call) ==
    [seed |-> listing.seed,
     old |-> listing.cur,
     cur |-> [op |-> call.op, function_id |-> call.function_id,
              order |-> set_iteration_order(listing.seed,
                                            call.result.dependencies)]]

InitOrder ==
    /\ disk \in LookupDisks
    /\ catalog \in {c \in LookupCatalogs : c.available}
    /\ clock = 0
    /\ prev = disk
    /\ last = Call("none", NoneVal, NoneVal, NoneVal, format_error(NoneVal))
    /\ writer = Idle
    /\ walk = NoWalk
    /\ \E seed \in HashSeeds : listing = [NoListing EXCEPT !.seed = seed]

\* get_current_task_context with the order of its dependency list
ContextInOrder ==
    /\ last' = Call("get_current_task_context", NoneVal, NoneVal, NoneVal,
                    get_current_task_context(disk, catalog, clock))
    /\ listing' = Listed(last')
    /\ prev' = disk
    /\ disk' = read_effect(disk, catalog, clock)
    /\ UNCHANGED <<catalog, clock, writer, walk>>

\* get_function_with_deps with the order of its dependency list
WithDepsInOrder ==
    /\ \E function_id \in LookupIds :
          last' = Call("get_function_with_deps", function_id, NoneVal, NoneVal,
                       get_function_with_deps(disk, catalog, clock, function_id))
    /\ listing' = Listed(last')
    /\ prev' = disk
    /\ disk' = read_effect(disk, catalog, clock)
    /\ UNCHANGED <<catalog, clock, writer, walk>>

\* server.py 103-106: the server is started again, as a new process
RestartServer ==
    /\ \E seed \in HashSeeds : listing' = [listing EXCEPT !.seed = seed]
    /\ UNCHANGED <<disk, catalog, clock, prev, last, writer, walk>>

NextOrder ==
    \/ ContextInOrder
    \/ WithDepsInOrder
    \/ RestartServer

SpecOrder == InitOrder /\ [][NextOrder]_vars

----------------------------------------------------------------------------
(* A single caller that works the project off: it asks                     *)
(* get_current_task_context for the current task, sets that task to        *)
(* in_progress, then to completed, and asks again.  The project starts     *)
(* without progress.json, its catalog is acyclic and declares no           *)
(* dependency without an entry, and the saves succeed.                     *)

WorkerCatalogs ==
    { [available |-> TRUE, functions |-> c] : c \in
        { <<FunctionDef("A", <<>>), FunctionDef("B", <<"A">>)>>,
          <<FunctionDef("B", <<"A">>), FunctionDef("A", <<>>)>>,
          <<FunctionDef("A", <<"B">>), FunctionDef("B", <<"C">>),
            FunctionDef("C", <<>>)>>,
          <<FunctionDef("A", <<"B", "C">>), FunctionDef("B", <<"C">>),
            FunctionDef("C", <<>>)>>,
          <<FunctionDef("A", <<"B", "B">>), FunctionDef("B", <<>>),
            FunctionDef("C", <<>>)>> } }

InitWorker ==
    /\ disk = Absent
    /\ catalog \in WorkerCatalogs
    /\ clock = 0
    /\ prev = disk
    /\ last = Call("none", NoneVal, NoneVal, NoneVal, format_error(NoneVal))
    /\ writer = Idle
    /\ listing = NoListing
    /\ walk = NoWalk

\* the caller made no call yet, or its last call completed a task
WorkerAsk ==
    /\ \/ last.op = "none"
       \/ /\ last.op = "update_task_status"
          /\ last.status = "completed"
          /\ last.result.success
    /\ GetCurrentTaskContext

WorkerUpdate(function_id, status) ==
    /\ \E notes \in NotesArgs :
          LET r == update_task_status(disk, catalog, function_id, status,
                                      notes, clock + 1, "ok")
          IN  /\ disk' = r.disk
              /\ last' = Call("update_task_status", function_id, status, notes,
                              r.result)
    /\ clock' = clock + 1
    /\ prev' = disk
    /\ UNCHANGED <<catalog, writer, walk, listing>>

\* the caller was given a current task and starts it
WorkerStart ==
    /\ last.op = "get_current_task_context"
    /\ last.result.success
    /\ last.result.selected # NoneVal
    /\ WorkerUpdate(last.result.selected, "in_progress")

\* the caller has started a task and completes it
WorkerComplete ==
    /\ last.op = "update_task_status"
    /\ last.status = "in_progress"
    /\ last.result.success
    /\ WorkerUpdate(last.function_id, "completed")

NextWorker ==
    \/ WorkerAsk
    \/ WorkerStart
    \/ WorkerComplete

\* the caller goes on as long as it has a next call to make
SpecWorker == InitWorker /\ [][NextWorker]_vars /\ WF_vars(NextWorker)

----------------------------------------------------------------------------
(* The closure traversal one loop iteration at a time (tools.py 202-211    *)
(* and 472-480).  walk.by tells which of the two loops runs: the one of    *)
(* get_current_task_context looks ids up in func_map, the one of           *)
(* get_function_with_deps calls get_function_by_id.  walk.expanded and     *)
(* walk.repeated record which ids had their dependencies appended and      *)
(* whether that happened twice for some id.                                *)

WalkCatalogs ==
    {c \in LookupCatalogs : c.available} \cup
    { [available |-> TRUE, functions |-> c] : c \in
        { <<FunctionDef("A", <<"B", "C">>), FunctionDef("B", <<"D">>),
            FunctionDef("C", <<"D">>), FunctionDef("D", <<"A">>)>>,
          <<FunctionDef("A", <<"B", "B", UnknownId, "A">>),
            FunctionDef("B", <<"A", "B", UnknownId>>)>>,
          <<FunctionDef("A", <<"B">>), FunctionDef("B", <<>>),
            FunctionDef("B", <<"A">>)>> } }

WalkLoops == {"func_map", "get_function_by_id"}

lookup(by, functions, id) ==
    IF by = "func_map" THEN func_map_get(functions, id)
    ELSE get_function_by_id(functions, id)

\* an iteration that never marks the id it pops
walk_step_unmarked(by, functions, w) ==
    LET dep_id == Head(w.to_process)
        dep_func == lookup(by, functions, dep_id)
    IN  [w EXCEPT !.to_process = Tail(w.to_process) \o
                                 (IF dep_func = NoFunc THEN <<>>
                                  ELSE dep_func.dependencies),
                  !.expanded = @ \cup {dep_id},
                  !.repeated = @ \/ dep_id \in w.expanded]

\* tools.py 203-211, 473-480: one iteration of `while to_process`
walk_step(by, functions, w) ==
    LET dep_id == Head(w.to_process) IN
    IF dep_id \in w.all_dep_ids
    THEN [w EXCEPT !.to_process = Tail(w.to_process)]
    ELSE LET seen == w.all_dep_ids \cup {dep_id}
             dep_func == lookup(by, functions, dep_id)
             nested == IF dep_func = NoFunc THEN <<>>
                       ELSE SelectSeq(dep_func.dependencies,
                                      LAMBDA n : n \notin seen)
         IN  [w EXCEPT !.to_process = Tail(w.to_process) \o nested,
                       !.all_dep_ids = seen,
                       !.expanded = @ \cup {dep_id},
                       !.repeated = @ \/ dep_id \in w.expanded]

\* tools.py 199-200, 469-470: the state of the loop before its first iteration
InitWalk ==
    /\ disk = Absent
    /\ catalog \in WalkCatalogs
    /\ clock = 0
    /\ prev = disk
    /\ last = Call("none", NoneVal, NoneVal, NoneVal, format_error(NoneVal))
    /\ writer = Idle
    /\ listing = NoListing
    /\ \E by \in WalkLoops, i \in 1..Len(catalog.functions) :
          LET id == catalog.functions[i].id IN
          walk = [pc |-> "walking", by |-> by, start |-> id,
                  to_process |-> lookup(by, catalog.functions, id).dependencies,
                  all_dep_ids |-> {}, expanded |-> {}, repeated |-> FALSE]

WalkStep ==
    /\ walk.pc = "walking"
    /\ walk.to_process # <<>>
    /\ walk' = walk_step(walk.by, catalog.functions, walk)
    /\ UNCHANGED <<disk, catalog, clock, prev, last, writer, listing>>

\* the loop condition is false: the traversal is over
WalkDone ==
    /\ walk.pc = "walking"
    /\ walk.to_process = <<>>
    /\ walk' = [walk EXCEPT !.pc = "done"]
    /\ UNCHANGED <<disk, catalog, clock, prev, last, writer, listing>>

NextWalk ==
    \/ WalkStep
    \/ WalkDone

\* the loop runs in one thread that nothing suspends
SpecWalk ==
    InitWalk /\ [][NextWalk]_vars /\ WF_vars(WalkStep) /\ WF_vars(WalkDone)

----------------------------------------------------------------------------
(* Views of the state used by the properties.  They are stated with sets   *)
(* and quantifiers, independently of the loops of the handlers.            *)

Range(seq) == {seq[i] : i \in 1..Len(seq)}

InCatalog(id) ==
    catalog.available /\ \E f \in Range(catalog.functions) : f.id = id

\* the dependency ids the catalog declares for id (none without an entry)
DeclaredDeps(id) ==
    IF InCatalog(id)
    THEN Range((CHOOSE f \in Range(catalog.functions) : f.id = id).dependencies)
    ELSE {}

\* the task mapping an operation sees when it loads d: the stored one, or one
\* pending task per catalog entry when progress.json is missing
LoadedTasks(d) ==
    IF d.kind = "file" THEN d.data.tasks
    ELSE IF d.kind = "absent" /\ catalog.available
    THEN [i \in 1..Len(catalog.functions) |->
             TaskStatus(catalog.functions[i].id, "pending", "", 0)]
    ELSE <<>>

LoadedLog(d) == IF d.kind = "file" THEN d.data.changelog ELSE <<>>

LoadedPointer(d) == IF d.kind = "file" THEN d.data.summary.current_task ELSE NoneVal

TaskIds(tasks) == {tasks[i].id : i \in 1..Len(tasks)}

StatusOf(tasks, id) ==
    IF id \in TaskIds(tasks)
    THEN (CHOOSE t \in Range(tasks) : t.id = id).status
    ELSE NoneVal

NotesOf(tasks, id) ==
    IF id \in TaskIds(tasks)
    THEN (CHOOSE t \in Range(tasks) : t.id = id).notes
    ELSE NoneVal

NumWithStatus(tasks, status) ==
    Cardinality({i \in 1..Len(tasks) : tasks[i].status = status})

\* the smallest index of tasks that satisfies P, 0 if there is none
FirstIndex(tasks, P(_)) ==
    IF \E i \in 1..Len(tasks) : P(tasks[i])
    THEN CHOOSE i \in 1..Len(tasks) :
            P(tasks[i]) /\ \A j \in 1..(i - 1) : ~P(tasks[j])
    ELSE 0

IdAt(tasks, i) == IF i = 0 THEN NoneVal ELSE tasks[i].id

IsPrefix(s, t) == Len(s) <= Len(t) /\ SubSeq(t, 1, Len(s)) = s

LastUpdate == last.op = "update_task_status"
LastUpdateOk == LastUpdate /\ last.result.success

\* the last call was get_current_task_context and both files could be read
LastContext ==
    /\ last.op = "get_current_task_context"
    /\ disk.kind # "corrupt"
    /\ catalog.available

----------------------------------------------------------------------------
(* C1: after a successful update_task_status the stored summary has total  *)
(* equal to the number of TaskState entries, each of completed,            *)
(* in_progress, pending and blocked equal to the number of entries with    *)
(* that status, and the four counts add up to total.                       *)

C1_SummaryMatchesTasks ==
    LastUpdateOk =>
        LET s == disk.data.summary
            t == disk.data.tasks
        IN  /\ disk.kind = "file"
            /\ s.total = Cardinality(TaskIds(t))
            /\ s.completed = NumWithStatus(t, "completed")
            /\ s.in_progress = NumWithStatus(t, "in_progress")
            /\ s.pending = NumWithStatus(t, "pending")
            /\ s.blocked = NumWithStatus(t, "blocked")
            /\ s.completed + s.in_progress + s.pending + s.blocked = s.total
            /\ last.result.summary = s

\* a successful update of a file whose summary had drifted from its tasks
C1_Witness ==
    /\ LastUpdateOk
    /\ prev.kind = "file"
    /\ prev.data.summary = DriftedSummary
    /\ prev.data.summary.total # Len(prev.data.tasks)
    /\ NumWithStatus(disk.data.tasks, "blocked") > 0

----------------------------------------------------------------------------
(* C2: when some task is in_progress, get_current_task_context selects the *)
(* first in_progress task in task order, whatever pending ready tasks      *)
(* there are before or after it.                                           *)

IsInProgress(t) == t.status = "in_progress"

C2_InProgressFirst ==
    (LastContext /\ \E t \in Range(LoadedTasks(disk)) : IsInProgress(t)) =>
        last.result.selected =
            IdAt(LoadedTasks(disk), FirstIndex(LoadedTasks(disk), IsInProgress))

\* the readiness of section 4.2 with the catalog entry required
ReadyInCatalog(t) ==
    /\ t.status = "pending"
    /\ InCatalog(t.id)
    /\ \A dep \in DeclaredDeps(t.id) : StatusOf(LoadedTasks(disk), dep) = "completed"

\* a ready pending task precedes the in_progress task that is returned
C2_Witness ==
    /\ LastContext
    /\ last.result.success
    /\ \E i, j \in 1..Len(LoadedTasks(disk)) :
          /\ i < j
          /\ ReadyInCatalog(LoadedTasks(disk)[i])
          /\ IsInProgress(LoadedTasks(disk)[j])
          /\ last.result.selected = LoadedTasks(disk)[j].id

----------------------------------------------------------------------------
(* C3 as stated: with no task in_progress, the selected task is the first  *)
(* pending task that has no declared dependencies or whose declared        *)
(* dependencies all have a completed TaskState.                            *)

ReadyAsStated(t) ==
    /\ t.status = "pending"
    /\ \/ DeclaredDeps(t.id) = {}
       \/ \A dep \in DeclaredDeps(t.id) :
             StatusOf(LoadedTasks(disk), dep) = "completed"

C3_Original ==
    (LastContext /\ \A t \in Range(LoadedTasks(disk)) : ~IsInProgress(t)) =>
        last.result.selected =
            IdAt(LoadedTasks(disk), FirstIndex(LoadedTasks(disk), ReadyAsStated))

(* C3 amended: with no task in_progress, the selected task is the first    *)
(* pending task that has a catalog entry and either declares no            *)
(* dependencies or has every declared dependency id in a TaskState with    *)
(* status completed; a pending task without a catalog entry is not ready.  *)

C3_FirstReadyPending ==
    (LastContext /\ \A t \in Range(LoadedTasks(disk)) : ~IsInProgress(t)) =>
        /\ last.result.selected =
              IdAt(LoadedTasks(disk), FirstIndex(LoadedTasks(disk), ReadyInCatalog))
        /\ last.result.success

\* the selected pending task declares dependencies and all are completed
C3_Witness ==
    /\ LastContext
    /\ \A t \in Range(LoadedTasks(disk)) : ~IsInProgress(t)
    /\ last.result.success
    /\ last.result.selected # NoneVal
    /\ DeclaredDeps(last.result.selected) # {}
    /\ \E t \in Range(LoadedTasks(disk)) : t.status = "pending" /\ ~ReadyInCatalog(t)

----------------------------------------------------------------------------
(* C4: with the catalog [A, B], B depending on A, and A and B both pending *)
(* in that order, the current task resolves to A; after a successful       *)
(* update_task_status(A, completed) it resolves to B, and after any other  *)
(* transition of A it does not resolve to B.                               *)

CatalogAB == <<FunctionDef("A", <<>>), FunctionDef("B", <<"A">>)>>

BothPending(d) ==
    /\ catalog.available
    /\ catalog.functions = CatalogAB
    /\ d.kind # "corrupt"
    /\ Len(LoadedTasks(d)) = 2
    /\ LoadedTasks(d)[1].id = "A" /\ LoadedTasks(d)[1].status = "pending"
    /\ LoadedTasks(d)[2].id = "B" /\ LoadedTasks(d)[2].status = "pending"

\* what get_current_task_context resolves when it is asked in state d
Resolves(d) == get_current_task_context(d, catalog, clock).selected

C4_ReadyAfterCompletion ==
    (LastUpdateOk /\ last.function_id = "A" /\ BothPending(prev)) =>
        /\ Resolves(prev) = "A"
        /\ last.status = "completed" => Resolves(disk) = "B"
        /\ last.status # "completed" => Resolves(disk) # "B"

C4_Witness ==
    /\ LastUpdateOk
    /\ last.function_id = "A"
    /\ last.status = "completed"
    /\ BothPending(prev)
    /\ Resolves(prev) = "A"
    /\ Resolves(disk) = "B"

----------------------------------------------------------------------------
(* C5: update_task_status with a status string outside the four values     *)
(* fails and leaves progress.json exactly as it was, for any task id.      *)

C5_InvalidStatusNoChange ==
    (LastUpdate /\ last.status \notin TaskStatusEnum) =>
        /\ ~last.result.success
        /\ last.result.error = "InvalidStatus"
        /\ last.result.write = "none"
        /\ disk = prev

\* "done" for a task that has a TaskState
C5_Witness ==
    /\ LastUpdate
    /\ last.status = "done"
    /\ prev.kind = "file"
    /\ last.function_id \in TaskIds(prev.data.tasks)
    /\ ~last.result.success

----------------------------------------------------------------------------
(* C6: update_task_status with a valid status for an id that has neither a *)
(* TaskState nor a catalog entry fails and leaves progress.json exactly as *)
(* it was: no TaskState is created and nothing is written.                 *)

C6_UnknownTaskNoChange ==
    (/\ LastUpdate
     /\ last.status \in TaskStatusEnum
     /\ last.function_id \notin TaskIds(LoadedTasks(prev))
     /\ ~InCatalog(last.function_id)) =>
        /\ ~last.result.success
        /\ last.result.write = "none"
        /\ disk = prev

C6_Witness ==
    /\ LastUpdate
    /\ last.status \in TaskStatusEnum
    /\ prev.kind = "file"
    /\ catalog.available
    /\ last.function_id \notin TaskIds(prev.data.tasks)
    /\ ~InCatalog(last.function_id)
    /\ last.result.error = "UnknownTask"

----------------------------------------------------------------------------
(* C7 as stated: two successive successful update_task_status calls with   *)
(* the same (function_id, status, notes) append two change-log entries in  *)
(* total, and leave every TaskState (timestamps aside) and the summary as  *)
(* they were after the first call.                                         *)

\* the step is the second of two successful calls with the same arguments
SecondOfTwo ==
    /\ LastUpdateOk
    /\ last'.op = "update_task_status"
    /\ last'.result.success
    /\ last'.function_id = last.function_id
    /\ last'.status = last.status
    /\ last'.notes = last.notes

\* the task mapping without the update timestamps
Untimed(tasks) ==
    [i \in 1..Len(tasks) |-> [tasks[i] EXCEPT !.updated_at = 0]]

SameAsAfterOnce ==
    /\ Untimed(disk'.data.tasks) = Untimed(disk.data.tasks)
    /\ StatusOf(disk'.data.tasks, last.function_id) = last.status
    /\ NotesOf(disk'.data.tasks, last.function_id) = last.notes
    /\ disk'.data.summary = disk.data.summary

C7_Original ==
    [][SecondOfTwo =>
          /\ Len(disk'.data.changelog) = Len(LoadedLog(prev)) + 2
          /\ SameAsAfterOnce]_vars

(* C7 amended: two successive successful calls with the same arguments     *)
(* append two change-log entries in total when the task had a TaskState    *)
(* before the first call and one entry when the first call created the     *)
(* TaskState; the final TaskStates (timestamps aside) and the summary are  *)
(* those obtained by applying the call once.                               *)

C7_IdempotentRetransition ==
    [][SecondOfTwo =>
          /\ Len(disk'.data.changelog) =
                Len(LoadedLog(prev))
                + (IF last.function_id \in TaskIds(LoadedTasks(prev)) THEN 2 ELSE 1)
          /\ IsPrefix(LoadedLog(prev), disk'.data.changelog)
          /\ SameAsAfterOnce]_vars

\* the state after the second call: the stored file before it already held
\* the task with the requested status and notes, logged one tick earlier
C7_Witness ==
    /\ LastUpdateOk
    /\ clock = 2
    /\ prev.kind = "file"
    /\ StatusOf(prev.data.tasks, last.function_id) = last.status
    /\ NotesOf(prev.data.tasks, last.function_id) = last.notes
    /\ Len(prev.data.changelog) > 0
    /\ LET e == prev.data.changelog[Len(prev.data.changelog)]
       IN  /\ e.function_id = last.function_id
           /\ e.description[2] = last.status
           /\ e.timestamp = clock - 1
    /\ Len(disk.data.changelog) = Len(prev.data.changelog) + 1
    /\ disk.data.changelog[Len(disk.data.changelog)].description
          = <<last.status, last.status>>

----------------------------------------------------------------------------
(* C8: a successful update_task_status appends exactly one change-log      *)
(* entry, recording old status -> new status for that id (also when they   *)
(* are equal), if the task had a TaskState, and appends nothing if the     *)
(* TaskState was created by the call.                                      *)

C8_LogGrowth ==
    LastUpdateOk =>
        IF last.function_id \in TaskIds(LoadedTasks(prev))
        THEN /\ Len(disk.data.changelog) = Len(LoadedLog(prev)) + 1
             /\ SubSeq(disk.data.changelog, 1, Len(LoadedLog(prev))) = LoadedLog(prev)
             /\ LET e == disk.data.changelog[Len(disk.data.changelog)]
                IN  /\ e.function_id = last.function_id
                    /\ e.description =
                          <<StatusOf(LoadedTasks(prev), last.function_id), last.status>>
             /\ ~last.result.created
        ELSE /\ disk.data.changelog = LoadedLog(prev)
             /\ last.result.created

\* a TaskState created from the catalog next to a non-empty change log
C8_Witness ==
    /\ LastUpdateOk
    /\ prev.kind = "file"
    /\ last.function_id \notin TaskIds(prev.data.tasks)
    /\ last.function_id \in TaskIds(disk.data.tasks)
    /\ prev.data.changelog # <<>>
    /\ disk.data.changelog = prev.data.changelog

----------------------------------------------------------------------------
(* C9: the change log is append-only: the log stored after an operation    *)
(* has the log stored before it as a prefix.                               *)

C9_LogAppendOnly ==
    prev.kind = "file" =>
        \A i \in 1..Len(prev.data.changelog) :
            /\ disk.kind = "file"
            /\ Len(disk.data.changelog) >= i
            /\ disk.data.changelog[i] = prev.data.changelog[i]

----------------------------------------------------------------------------
(* C10: after a successful update_task_status(id, status) the pointer is   *)
(* id if status is in_progress; otherwise it is none if it was id before   *)
(* the call and unchanged if it was anything else, whether the TaskState   *)
(* existed or was created by the call.                                     *)

C10_Pointer ==
    LastUpdateOk =>
        disk.data.summary.current_task =
            IF last.status = "in_progress" THEN last.function_id
            ELSE IF LoadedPointer(prev) = last.function_id THEN NoneVal
            ELSE LoadedPointer(prev)

\* the call created the TaskState of the task the pointer named
C10_Witness ==
    /\ LastUpdateOk
    /\ last.result.created
    /\ last.status # "in_progress"
    /\ LoadedPointer(prev) = last.function_id
    /\ disk.data.summary.current_task = NoneVal

----------------------------------------------------------------------------
(* C11: the closure returned for a start unit S holds only catalog entries *)
(* reachable from S through dependency edges, and holds every catalog      *)
(* entry other than S that is reachable from S; ids without a catalog      *)
(* entry are dropped and the call still succeeds; for the chain A -> B ->  *)
(* C the closure of A is exactly {B, C}.                                   *)

\* the ids reachable from the frontier through one or more declared edges
RECURSIVE ReachFrom(_, _)
ReachFrom(frontier, seen) ==
    LET new == (UNION {DeclaredDeps(x) : x \in frontier}) \ seen
    IN  IF new = {} THEN seen ELSE ReachFrom(new, seen \cup new)

Reachable(id) == ReachFrom({id}, {})

CatalogChain ==
    <<FunctionDef("A", <<"B">>), FunctionDef("B", <<"C">>), FunctionDef("C", <<>>)>>

CatalogCycle == <<FunctionDef("A", <<"B">>), FunctionDef("B", <<"A">>)>>

\* the last call computed a closure for a start unit with a catalog entry
LastClosure ==
    /\ last.op \in {"get_current_task_context", "get_function_with_deps"}
    /\ catalog.available
    /\ disk.kind # "corrupt"
    /\ last.result.selected # NoneVal
    /\ InCatalog(last.result.selected)

C11_ClosureIsReachable ==
    LastClosure =>
        LET S == last.result.selected
            closure == last.result.dependencies
        IN  /\ last.result.success
            /\ \A id \in closure : InCatalog(id) /\ id \in Reachable(S)
            /\ \A id \in Reachable(S) : (InCatalog(id) /\ id # S) => id \in closure
            /\ (catalog.functions = CatalogChain /\ S = "A") => closure = {"B", "C"}

\* the context of the in_progress head of the chain carries B and C
C11_Witness ==
    /\ last.op = "get_current_task_context"
    /\ LastClosure
    /\ catalog.functions = CatalogChain
    /\ last.result.selected = "A"
    /\ last.result.dependencies = {"B", "C"}

----------------------------------------------------------------------------
(* C12: in the cyclic catalog A -> B -> A the closure computed for A is    *)
(* exactly {B}, and in no catalog is the start unit a member of its own    *)
(* closure.                                                                *)

C12_StartNotInClosure ==
    LastClosure =>
        /\ last.result.selected \notin last.result.dependencies
        /\ (catalog.functions = CatalogCycle /\ last.result.selected = "A") =>
               last.result.dependencies = {"B"}

----------------------------------------------------------------------------
(* C13: a pending task that declares a dependency id with no TaskState and *)
(* no catalog entry is never selected by get_current_task_context, and its *)
(* presence makes neither the summary nor the readiness scan nor the       *)
(* closure traversal fail.                                                 *)

\* t declares a dependency id that exists nowhere
HasDanglingDep(t) ==
    \E dep \in DeclaredDeps(t.id) :
        ~InCatalog(dep) /\ dep \notin TaskIds(LoadedTasks(disk))

\* an in_progress task without a catalog entry (the case of C20)
OrphanInProgress ==
    \E t \in Range(LoadedTasks(disk)) : IsInProgress(t) /\ ~InCatalog(t.id)

C13_DanglingDepNeverReady ==
    LET dangling == {t \in Range(LoadedTasks(disk)) : HasDanglingDep(t)} IN
    /\ LastContext =>
          \A t \in dangling : t.status = "pending" => last.result.selected # t.id
    /\ (LastContext /\ dangling # {} /\ ~OrphanInProgress) => last.result.success
    /\ (last.op = "get_project_status" /\ disk.kind # "corrupt" /\ dangling # {}) =>
          last.result.success

CatalogDangling == <<FunctionDef("A", <<UnknownId>>), FunctionDef("B", <<>>)>>

\* A comes first and is pending, but B is selected
C13_Witness ==
    /\ LastContext
    /\ catalog.functions = CatalogDangling
    /\ Len(LoadedTasks(disk)) = 2
    /\ HasDanglingDep(LoadedTasks(disk)[1])
    /\ LoadedTasks(disk)[1].status = "pending"
    /\ last.result.success
    /\ last.result.selected = "B"

----------------------------------------------------------------------------
(* C14: when the save of update_task_status fails, the call returns a      *)
(* failure and progress.json is exactly what it was before the call.       *)

C14_FailedSaveKeepsState ==
    (LastUpdate /\ last.result.write \in {"open_fail", "dump_fail"}) =>
        /\ ~last.result.success
        /\ disk = prev

----------------------------------------------------------------------------
(* C15: a get_project_status or get_current_task_context that runs while   *)
(* an update_task_status of another caller is saving returns what it       *)
(* returns on the complete state before the update or on the complete      *)
(* state after it.                                                         *)

ReadResult(op, d) ==
    IF op = "get_project_status"
    THEN get_project_status(d, catalog, clock)
    ELSE get_current_task_context(d, catalog, clock)

C15_ReaderSeesPreOrPost ==
    (/\ writer.pc = "writing"
     /\ last.op \in {"get_project_status", "get_current_task_context"}) =>
        last.result \in {ReadResult(last.op, writer.pre),
                         ReadResult(last.op, writer.post)}

----------------------------------------------------------------------------
(* C16: without a progress.json, loading the state yields one pending      *)
(* TaskState per catalog entry in catalog order, an empty change log, no   *)
(* current-task pointer and a summary with total = pending = number of     *)
(* catalog entries and all other counts 0; get_project_status reports      *)
(* that summary.                                                           *)

C16_SeededFromCatalog ==
    (disk.kind = "absent" /\ catalog.available) =>
        LET loaded == read_progress(disk, catalog, clock)
            p == loaded.progress
            n == Len(catalog.functions)
        IN  /\ loaded.ok
            /\ Len(p.tasks) = n
            /\ \A i \in 1..n :
                  /\ p.tasks[i].id = catalog.functions[i].id
                  /\ p.tasks[i].status = "pending"
            /\ p.changelog = <<>>
            /\ p.summary.current_task = NoneVal
            /\ p.summary.total = n /\ p.summary.pending = n
            /\ p.summary.completed = 0 /\ p.summary.in_progress = 0
            /\ p.summary.blocked = 0
            /\ last.op = "get_project_status" =>
                  last.result.success /\ last.result.summary = p.summary

\* the status of a project with three catalog entries and no progress.json
C16_Witness ==
    /\ last.op = "get_project_status"
    /\ disk.kind = "absent"
    /\ catalog.available
    /\ Len(catalog.functions) = 3
    /\ last.result.summary.pending = 3
    /\ last.result.summary.total = 3

----------------------------------------------------------------------------
(* C17: no collaborator failure is absorbed; in particular, when there is  *)
(* no progress.json and functions.json cannot be loaded, both              *)
(* get_project_status and get_current_task_context return a failure.       *)

C17_CatalogFailureReported ==
    (/\ last.op \in {"get_project_status", "get_current_task_context"}
     /\ disk.kind = "absent"
     /\ ~catalog.available) => ~last.result.success

----------------------------------------------------------------------------
(* C18: a pending task returned by get_current_task_context has every      *)
(* declared dependency completed; get_current_task returns the first       *)
(* in_progress task, else the first pending task in task order, whatever   *)
(* the state of its dependencies.                                          *)

IsPending(t) == t.status = "pending"

\* the returned task is pending and all its declared dependencies are completed
PendingWithDepsMet(id) ==
    StatusOf(LoadedTasks(disk), id) = "pending" =>
        \A dep \in DeclaredDeps(id) : StatusOf(LoadedTasks(disk), dep) = "completed"

LastResolver ==
    /\ last.op \in {"get_current_task", "get_current_task_context"}
    /\ disk.kind # "corrupt"
    /\ catalog.available

\* as stated: the same holds for both resolvers
C18_Original ==
    (LastResolver /\ last.result.success /\ last.result.selected # NoneVal) =>
        PendingWithDepsMet(last.result.selected)

C18_ResolversAndDependencies ==
    /\ (LastContext /\ last.result.success /\ last.result.selected # NoneVal) =>
          PendingWithDepsMet(last.result.selected)
    /\ (LastResolver /\ last.op = "get_current_task") =>
          LET tasks == LoadedTasks(disk)
              want == IF \E t \in Range(tasks) : IsInProgress(t)
                      THEN IdAt(tasks, FirstIndex(tasks, IsInProgress))
                      ELSE IdAt(tasks, FirstIndex(tasks, IsPending))
          IN  IF want = NoneVal \/ InCatalog(want)
              THEN last.result.success /\ last.result.selected = want
              ELSE ~last.result.success

\* get_current_task returns a pending task one of whose dependencies is not
\* completed, where get_current_task_context selects another task or none
C18_Witness ==
    /\ LastResolver
    /\ last.op = "get_current_task"
    /\ last.result.success
    /\ last.result.selected # NoneVal
    /\ ~PendingWithDepsMet(last.result.selected)
    /\ Resolves(disk) # last.result.selected

----------------------------------------------------------------------------
(* C19: whenever an operation loads the state, the task mapping holds      *)
(* exactly one TaskState for every id of the current catalog, also when    *)
(* progress.json was written for a smaller catalog.                        *)

C19_OneTaskPerCatalogId ==
    (/\ last.op \in {"get_project_status", "get_current_task_context",
                     "get_current_task"}
     /\ last.result.success
     /\ catalog.available
     /\ LoadedTasks(disk) # <<>>) =>
        \A f \in Range(catalog.functions) :
            Cardinality({i \in 1..Len(LoadedTasks(disk)) :
                            LoadedTasks(disk)[i].id = f.id}) = 1

----------------------------------------------------------------------------
(* C20: when functions.json and progress.json load, get_current_task_      *)
(* context returns a success, with a resolved task or with no current      *)
(* task, also when a TaskState has an id without a catalog entry.          *)

C20_OrphanTaskIsDeadEnd ==
    LastContext =>
        /\ last.result.success
        /\ last.result.selected # NoneVal => InCatalog(last.result.selected)

----------------------------------------------------------------------------
(* C21: on every catalog, with cycles, self-references, duplicate          *)
(* dependency ids and ids without an entry, the closure traversal appends  *)
(* the dependencies of each id at most once, ends with the set the         *)
(* handlers return, and does end.                                          *)

WalkResult ==
    LET deps == lookup(walk.by, catalog.functions, walk.start).dependencies IN
    IF walk.by = "func_map"
    THEN collect_deps(catalog.functions, deps, {})
    ELSE collect_deps_by_id(catalog.functions, deps, {})

ExpandedOnce ==
    /\ ~walk.repeated
    /\ walk.expanded = walk.all_dep_ids
    /\ walk.pc = "done" => walk.all_dep_ids = WalkResult

C21_TraversalTerminates == []ExpandedOnce /\ <>(walk.pc = "done")

\* a finished traversal that came back to its start through a cycle and met a
\* duplicate dependency id and an id without a catalog entry
C21_Witness ==
    /\ walk.pc = "done"
    /\ walk.start \in walk.expanded
    /\ UnknownId \in walk.expanded
    /\ \E f \in Range(catalog.functions) :
          Len(f.dependencies) > Cardinality(Range(f.dependencies))

----------------------------------------------------------------------------
(* C22: get_project_status, get_current_task_context, get_current_task,    *)
(* get_function_def, get_function_with_deps and get_architecture_overview  *)
(* leave progress.json as it was, also when there is none and the state is *)
(* seeded in memory.                                                       *)

ReadOps ==
    {"get_project_status", "get_current_task_context", "get_current_task",
     "get_function_def", "get_function_with_deps", "get_architecture_overview"}

C22_ReadsDoNotWrite ==
    last.op \in ReadOps =>
        /\ disk = prev
        /\ LoadedTasks(disk) = LoadedTasks(prev)
        /\ LoadedLog(disk) = LoadedLog(prev)
        /\ LoadedPointer(disk) = LoadedPointer(prev)

\* a successful read of a project without progress.json, which seeded two
\* or more tasks in memory, and still no progress.json afterwards
C22_Witness ==
    /\ last.op \in ReadOps \ {"get_architecture_overview"}
    /\ last.result.success
    /\ prev.kind = "absent"
    /\ disk.kind = "absent"
    /\ Len(LoadedTasks(prev)) >= 2

----------------------------------------------------------------------------
(* C23: two calls of the same closure operation on the same catalog and    *)
(* the same progress.json return the dependencies in the same order.       *)

C23_SameOrder ==
    (/\ listing.cur.op # NoneVal
     /\ listing.cur.op = listing.old.op
     /\ listing.cur.function_id = listing.old.function_id) =>
        listing.cur.order = listing.old.order

----------------------------------------------------------------------------
(* C24: in a project whose state was seeded from the catalog and changed   *)
(* by update_task_status only, a current-task pointer that is set names a  *)
(* task whose status is in_progress.                                       *)

C24_PointerNotStale ==
    LoadedPointer(disk) # NoneVal =>
        StatusOf(LoadedTasks(disk), LoadedPointer(disk)) = "in_progress"

\* the pointer moved from A to B while A stays in_progress: the pointer is
\* not stale, and the converse does not hold
C24_Witness ==
    /\ LastUpdateOk
    /\ last.function_id = "B"
    /\ LoadedPointer(prev) = "A"
    /\ LoadedPointer(disk) = "B"
    /\ StatusOf(LoadedTasks(disk), "A") = "in_progress"
    /\ StatusOf(LoadedTasks(disk), "B") = "in_progress"

----------------------------------------------------------------------------
(* C25: a successful update_task_status(function_id, ...) leaves the       *)
(* status, notes and timestamp of every other task as they were loaded,    *)
(* adds and removes no other task id and keeps the order of the tasks;     *)
(* a task it creates comes last.                                           *)

\* the tasks the last update_task_status loaded, at the time of the call
TasksBefore == read_progress(prev, catalog, clock).progress.tasks

C25_OtherTasksUntouched ==
    LastUpdateOk =>
        LET before == TasksBefore
            after == disk.data.tasks
            known == last.function_id \in TaskIds(before)
        IN  /\ disk.kind = "file"
            /\ Len(after) = Len(before) + (IF known THEN 0 ELSE 1)
            /\ \A i \in 1..Len(before) :
                  /\ after[i].id = before[i].id
                  /\ before[i].id # last.function_id => after[i] = before[i]
            /\ ~known => after[Len(after)].id = last.function_id

\* a task is created behind two or more stored tasks, one of which is not
\* pending
C25_Witness ==
    /\ LastUpdateOk
    /\ prev.kind = "file"
    /\ Len(prev.data.tasks) >= 2
    /\ last.function_id \notin TaskIds(prev.data.tasks)
    /\ Len(disk.data.tasks) = Len(prev.data.tasks) + 1
    /\ \E i \in 1..Len(prev.data.tasks) : prev.data.tasks[i].status # "pending"

----------------------------------------------------------------------------
(* C26: the caller that works off a seeded project with an acyclic catalog *)
(* without dangling dependencies is never told that there is no current    *)
(* task while some task is not completed, and eventually every task is     *)
(* completed.                                                              *)

AllCompleted ==
    /\ disk.kind = "file"
    /\ TaskIds(disk.data.tasks) = {f.id : f \in Range(catalog.functions)}
    /\ \A t \in Range(disk.data.tasks) : t.status = "completed"

NoCurrentTask ==
    /\ last.op = "get_current_task_context"
    /\ last.result.success
    /\ last.result.selected = NoneVal

C26_WorkerFinishes ==
    /\ [](last.op = "get_current_task_context" => last.result.success)
    /\ [](NoCurrentTask => AllCompleted)
    /\ <>AllCompleted

\* the caller is told that there is no current task after it started and
\* completed the three tasks of the chain, the last of them first
C26_Witness ==
    /\ NoCurrentTask
    /\ AllCompleted
    /\ catalog.functions = CatalogChain
    /\ Len(disk.data.changelog) = 6
    /\ disk.data.changelog[1].function_id = "C"

====
